---- MODULE Spec2Model ----
(***************************************************************************)
(* A model of the aster facade layer: the type-node method set and its     *)
(* conformance check (type_node.go), the struct-tag editor (type_node.go), *)
(* the list type (type_node.go), the facade index (inspect.go) and the     *)
(* classification pass that fills it (inspect.go, package_info.go).        *)
(***************************************************************************)
EXTENDS Integers, Sequences, FiniteSets, TLC

VARIABLES
    typeName,   \* superType.Name(): the owner's current name
    methods,    \* superType.methods
    okCalls,    \* history: number of addMethod calls that returned nil
    typeCall,   \* the last call on the type node and what it returned
    fieldTag,   \* StructTag.field.Tag: NilLit or the literal's Value (text)
    tags,       \* StructTag.tags: the parsed tag set
    tagCall,    \* the last call on the StructTag, what it returned, and the call before
    facades,    \* PackageInfo.facades of every loaded package
    idxCall,    \* the last call on the facade index and what it returned
    defs,       \* PackageInfo.info.Defs of package "p1": its identifier-to-object table
    checked,    \* history: PackageInfo.check has run over defs
    listType,   \* a ListType: its kind and its ast.ArrayType
    lenCall     \* the last call of ListType.Len and what it returned

typeVars == <<typeName, methods, okCalls, typeCall>>
tagVars == <<fieldTag, tags, tagCall>>
idxVars == <<facades, idxCall, defs, checked>>
listVars == <<listType, lenCall>>

vars == <<typeName, methods, okCalls, typeCall, fieldTag, tags, tagCall,
          facades, idxCall, defs, checked, listType, lenCall>>

-----------------------------------------------------------------------------
(* Bounds                                                                  *)

MaxMethods == 2        \* methods appended to the type node
MaxIfaceMethods == 1   \* methods of the interface node handed to Implements

-----------------------------------------------------------------------------
(* Function nodes                                                          *)

NoRecv == "<none>"
TypeNames == {"T", "S"}
MethodNames == {"m", "n"}

\* (variadic, parameter type-names, result type-names)
Sigs ==
    { [variadic |-> FALSE, params |-> <<>>,           results |-> <<>>],
      [variadic |-> FALSE, params |-> <<"int">>,      results |-> <<>>],
      [variadic |-> TRUE,  params |-> <<"int">>,      results |-> <<>>],
      [variadic |-> FALSE, params |-> <<"string">>,   results |-> <<>>],
      [variadic |-> FALSE, params |-> <<>>,           results |-> <<"int">>],
      [variadic |-> FALSE, params |-> <<>>,           results |-> <<"string">>] }

FuncNodes(recvs) ==
    { [name |-> n, recv |-> r, variadic |-> s.variadic,
       params |-> s.params, results |-> s.results] :
        n \in MethodNames, r \in recvs, s \in Sigs }

\* What an out-of-range Param(i)/Result(i) hands back besides found = false:
\* a nil *FuncField, or a zero FuncField.
ZeroFields == {"nil", "zero"}

NumParam(m) == Len(m.params)
NumResult(m) == Len(m.results)
IsVariadic(m) == m.variadic

Param(m, i) ==
    IF i < 0 \/ i >= NumParam(m)
    THEN [found |-> FALSE, TypeName |-> ""]
    ELSE [found |-> TRUE, TypeName |-> m.params[i + 1]]

Result(m, i) ==
    IF i < 0 \/ i >= NumResult(m)
    THEN [found |-> FALSE, TypeName |-> ""]
    ELSE [found |-> TRUE, TypeName |-> m.results[i + 1]]

Recv(m) ==
    IF m.recv = NoRecv
    THEN [found |-> FALSE, TypeName |-> ""]
    ELSE [found |-> TRUE, TypeName |-> m.recv]

-----------------------------------------------------------------------------
(* superType: the method set                                               *)

NumMethod(ms) == Len(ms)

Method(ms, i) ==
    IF i < 0 \/ i >= Len(ms)
    THEN [found |-> FALSE]
    ELSE [found |-> TRUE, m |-> ms[i + 1]]

RECURSIVE MethodByNameFrom(_, _, _)
MethodByNameFrom(ms, name, k) ==
    IF k > Len(ms) THEN [found |-> FALSE]
    ELSE IF ms[k].name = name THEN [found |-> TRUE, m |-> ms[k]]
    ELSE MethodByNameFrom(ms, name, k + 1)

MethodByName(ms, name) == MethodByNameFrom(ms, name, 1)

\* for j := um.NumParam(); j >= 0; j-- { uf.TypeName != cf.TypeName }
\* uf and cf come from Param(j) with the found flag dropped; reading TypeName
\* through a nil field panics.
RECURSIVE ParamLoop(_, _, _, _)
ParamLoop(um, cm, j, zf) ==
    IF j < 0 THEN "ok"
    ELSE LET uf == Param(um, j)
             cf == Param(cm, j)
         IN  IF zf = "nil" /\ (~uf.found \/ ~cf.found) THEN "panic"
             ELSE IF uf.TypeName # cf.TypeName THEN "false"
             ELSE ParamLoop(um, cm, j - 1, zf)

RECURSIVE ResultLoop(_, _, _, _)
ResultLoop(um, cm, j, zf) ==
    IF j < 0 THEN "ok"
    ELSE LET uf == Result(um, j)
             cf == Result(cm, j)
         IN  IF zf = "nil" /\ (~uf.found \/ ~cf.found) THEN "panic"
             ELSE IF uf.TypeName # cf.TypeName THEN "false"
             ELSE ResultLoop(um, cm, j - 1, zf)

RECURSIVE ImplementsFrom(_, _, _, _)
ImplementsFrom(ms, u, i, zf) ==
    IF i < 0 THEN "true"
    ELSE LET um == Method(u, i).m
             c  == MethodByName(ms, um.name)
         IN  IF ~c.found THEN "false"
             ELSE IF \/ IsVariadic(um) # IsVariadic(c.m)
                     \/ NumParam(um) # NumParam(c.m)
                     \/ NumResult(um) # NumResult(c.m)
                  THEN "false"
             ELSE LET p == ParamLoop(um, c.m, NumParam(um), zf)
                  IN  IF p # "ok" THEN p
                      ELSE LET r == ResultLoop(um, c.m, NumResult(um), zf)
                           IN  IF r # "ok" THEN r
                               ELSE ImplementsFrom(ms, u, i - 1, zf)

\* superType.Implements: "true", "false", or "panic"
Implements(ms, u, zf) == ImplementsFrom(ms, u, NumMethod(u) - 1, zf)

addMethodNoCheck(ms, owner, method) ==
    [methods |-> Append(ms, method), err |-> FALSE]

\* superType.addMethod: the method list afterwards and whether an error is returned
addMethod(ms, owner, method) ==
    LET field == Recv(method)
    IN  IF ~field.found THEN [methods |-> ms, err |-> TRUE]
        ELSE IF field.TypeName # owner THEN [methods |-> ms, err |-> TRUE]
        ELSE [methods |-> Append(ms, method), err |-> FALSE]

-----------------------------------------------------------------------------
(* Sequences of bounded length over a set                                  *)

RECURSIVE SeqsUpTo(_, _)
SeqsUpTo(S, n) ==
    IF n = 0 THEN {<<>>}
    ELSE LET shorter == SeqsUpTo(S, n - 1)
         IN  shorter \cup { Append(s, x) : s \in shorter, x \in S }

-----------------------------------------------------------------------------
(* Type node: actions                                                      *)

NoCall == [op |-> "none", err |-> FALSE, u |-> <<>>, ret |-> "none"]

AddMethod ==
    /\ \E method \in FuncNodes(TypeNames \cup {NoRecv}) :
         LET r == addMethod(methods, typeName, method)
         IN  /\ Len(r.methods) <= MaxMethods
             /\ methods' = r.methods
             /\ okCalls' = IF r.err THEN okCalls ELSE okCalls + 1
             /\ typeCall' = [op |-> "addMethod", err |-> r.err,
                             u |-> <<>>, ret |-> "none"]
    /\ UNCHANGED typeName
    /\ UNCHANGED <<tagVars, idxVars, listVars>>

\* super.SetName: the owner's name is mutable
SetName ==
    /\ \E n \in TypeNames \ {typeName} : typeName' = n
    /\ typeCall' = [op |-> "SetName", err |-> FALSE, u |-> <<>>, ret |-> "none"]
    /\ UNCHANGED <<methods, okCalls>>
    /\ UNCHANGED <<tagVars, idxVars, listVars>>

CallImplements ==
    /\ \E u \in SeqsUpTo(FuncNodes({NoRecv}), MaxIfaceMethods), zf \in ZeroFields :
         typeCall' = [op |-> "Implements", err |-> FALSE, u |-> u,
                      ret |-> Implements(methods, u, zf)]
    /\ UNCHANGED <<typeName, methods, okCalls>>
    /\ UNCHANGED <<tagVars, idxVars, listVars>>

-----------------------------------------------------------------------------
(* Text: a string is the sequence of its characters                        *)

Q == "\""

\* The characters used, in byte order
CharOrder == <<" ", Q, ",", ":", "a", "b", "o", "p", "x", "y">>

Ord(c) == CHOOSE i \in 1..Len(CharOrder) : CharOrder[i] = c

\* Go's s1 < s2 on strings
RECURSIVE StrLess(_, _)
StrLess(s1, s2) ==
    IF s2 = <<>> THEN FALSE
    ELSE IF s1 = <<>> THEN TRUE
    ELSE IF Head(s1) # Head(s2) THEN Ord(Head(s1)) < Ord(Head(s2))
    ELSE StrLess(Tail(s1), Tail(s2))

\* strings.Split(s, sep) for a one-character sep
RECURSIVE SplitFrom(_, _, _, _)
SplitFrom(s, sep, cur, acc) ==
    IF s = <<>> THEN Append(acc, cur)
    ELSE IF Head(s) = sep THEN SplitFrom(Tail(s), sep, <<>>, Append(acc, cur))
    ELSE SplitFrom(Tail(s), sep, Append(cur, Head(s)), acc)

Split(s, sep) == SplitFrom(s, sep, <<>>, <<>>)

\* strings.Join(parts, sep)
RECURSIVE Join(_, _)
Join(parts, sep) ==
    IF parts = <<>> THEN <<>>
    ELSE IF Len(parts) = 1 THEN parts[1]
    ELSE parts[1] \o sep \o Join(Tail(parts), sep)

-----------------------------------------------------------------------------
(* package structtag: Tags                                                 *)

IsKeyChar(c) == c \notin {" ", ":", Q}

RECURSIVE SkipSpace(_)
SkipSpace(t) == IF t # <<>> /\ Head(t) = " " THEN SkipSpace(Tail(t)) ELSE t

\* number of leading key characters of t, counting on from i
RECURSIVE KeyLen(_, _)
KeyLen(t, i) == IF i < Len(t) /\ IsKeyChar(t[i + 1]) THEN KeyLen(t, i + 1) ELSE i

\* 0-based index of the closing quote of t, or Len(t) when there is none
RECURSIVE QuoteEnd(_, _)
QuoteEnd(t, i) == IF i < Len(t) /\ t[i + 1] # Q THEN QuoteEnd(t, i + 1) ELSE i

\* a failed Parse returns no tag set
ParseError == [err |-> TRUE, tags |-> <<>>]

RECURSIVE ParseFrom(_, _)
ParseFrom(text, acc) ==
    LET t == SkipSpace(text)
    IN  IF t = <<>> THEN [err |-> FALSE, tags |-> acc]
        ELSE LET i == KeyLen(t, 0)
             IN  IF i = 0 THEN ParseError
                 ELSE IF i + 1 >= Len(t) \/ t[i + 1] # ":" THEN ParseError
                 ELSE IF t[i + 2] # Q THEN ParseError
                 ELSE LET key  == SubSeq(t, 1, i)
                          rest == SubSeq(t, i + 2, Len(t))
                          j    == QuoteEnd(rest, 1)
                      IN  IF j >= Len(rest) THEN ParseError
                          ELSE LET res == Split(SubSeq(rest, 2, j), ",")
                               IN  ParseFrom(SubSeq(rest, j + 2, Len(rest)),
                                       Append(acc, [Key |-> key, Name |-> res[1],
                                                    Options |-> Tail(res)]))

\* structtag.Parse
Parse(text) == ParseFrom(text, <<>>)

\* Tag.Value
TagValue(tag) ==
    IF Join(tag.Options, <<",">>) # <<>>
    THEN tag.Name \o <<",">> \o Join(tag.Options, <<",">>)
    ELSE tag.Name

\* Tag.String
TagString(tag) == tag.Key \o <<":", Q>> \o TagValue(tag) \o <<Q>>

\* Tags.String
RECURSIVE TagsString(_)
TagsString(ts) ==
    IF ts = <<>> THEN <<>>
    ELSE IF Len(ts) = 1 THEN TagString(ts[1])
    ELSE TagString(ts[1]) \o <<" ">> \o TagsString(Tail(ts))

\* Tags.Keys
TagsKeys(ts) == [i \in 1..Len(ts) |-> ts[i].Key]

\* Tags.Get
RECURSIVE TagsGet(_, _)
TagsGet(ts, key) ==
    IF ts = <<>> THEN [found |-> FALSE, val |-> <<>>]
    ELSE IF Head(ts).Key = key THEN [found |-> TRUE, val |-> TagValue(Head(ts))]
    ELSE TagsGet(Tail(ts), key)

\* Tags.Set: an empty key is rejected; every tag with the key is replaced, or
\* the tag is appended
TagsSet(ts, tag) ==
    IF tag.Key = <<>> THEN [err |-> TRUE, tags |-> ts]
    ELSE IF \E i \in 1..Len(ts) : ts[i].Key = tag.Key
         THEN [err |-> FALSE,
               tags |-> [i \in 1..Len(ts) |-> IF ts[i].Key = tag.Key THEN tag ELSE ts[i]]]
         ELSE [err |-> FALSE, tags |-> Append(ts, tag)]

InSeq(x, xs) == \E i \in 1..Len(xs) : xs[i] = x

\* Tags.Delete
TagsDelete(ts, keys) == SelectSeq(ts, LAMBDA tag : ~InSeq(tag.Key, keys))

RECURSIVE AppendMissing(_, _)
AppendMissing(opts, more) ==
    IF more = <<>> THEN opts
    ELSE AppendMissing(IF InSeq(Head(more), opts) THEN opts ELSE Append(opts, Head(more)),
                       Tail(more))

\* Tags.AddOptions
TagsAddOptions(ts, key, options) ==
    [i \in 1..Len(ts) |->
        IF ts[i].Key # key THEN ts[i]
        ELSE [ts[i] EXCEPT !.Options = AppendMissing(@, options)]]

\* Tags.DeleteOptions
TagsDeleteOptions(ts, key, options) ==
    [i \in 1..Len(ts) |->
        IF ts[i].Key # key THEN ts[i]
        ELSE [ts[i] EXCEPT !.Options = SelectSeq(@, LAMBDA o : ~InSeq(o, options))]]

\* Tags.Less
TagsLess(ts, i, j) == StrLess(ts[i].Key, ts[j].Key)

\* Tags.Swap
TagsSwap(ts, i, j) == [ts EXCEPT ![i] = ts[j], ![j] = ts[i]]

\* sort.Sort on a short slice: insertion sort through Less and Swap
RECURSIVE SiftDown(_, _)
SiftDown(ts, j) ==
    IF j > 1 /\ TagsLess(ts, j, j - 1) THEN SiftDown(TagsSwap(ts, j, j - 1), j - 1) ELSE ts

RECURSIVE SortFrom(_, _)
SortFrom(ts, i) == IF i > Len(ts) THEN ts ELSE SortFrom(SiftDown(ts, i), i + 1)

SortTags(ts) == SortFrom(ts, 2)

-----------------------------------------------------------------------------
(* StructTag                                                               *)

NilLit == [nil |-> TRUE, Value |-> <<>>]
Lit(text) == [nil |-> FALSE, Value |-> text]

reparseNoErr(tag) ==
    LET value == IF ~tag.nil THEN tag.Value ELSE <<>>
        r == Parse(value)
    IN  [tags |-> IF r.err THEN Parse(<<>>).tags ELSE r.tags, err |-> FALSE]

\* StructTag.reparse: the tag set afterwards and the error returned
reparse(tag) ==
    LET value == IF ~tag.nil THEN tag.Value ELSE <<>>
        r == Parse(value)
    IN  [tags |-> IF r.err THEN Parse(<<>>).tags ELSE r.tags, err |-> r.err]

\* newStructTag: reparse with the error dropped
newStructTag(tag) == [tags |-> reparse(tag).tags, err |-> FALSE]

resetValueNoSort(tag, ts) ==
    LET value == TagsString(ts)
    IN  [tags |-> ts, tag |-> IF value = <<>> THEN NilLit ELSE Lit(value)]

\* StructTag.resetValue: the sorted tag set and the field's tag literal
resetValue(tag, ts) ==
    LET sorted == SortTags(ts)
        value == TagsString(sorted)
    IN  [tags |-> sorted, tag |-> IF value = <<>> THEN NilLit ELSE Lit(value)]

\* StructTag.AddOptions
StructTagAddOptions(tag, ts, key, options) ==
    resetValue(tag, TagsAddOptions(ts, key, options))

\* StructTag.Delete
StructTagDelete(tag, ts, keys) == resetValue(tag, TagsDelete(ts, keys))

\* StructTag.DeleteOptions
StructTagDeleteOptions(tag, ts, key, options) ==
    resetValue(tag, TagsDeleteOptions(ts, key, options))

StructTagSetAlwaysReset(tag, ts, t) ==
    LET r == TagsSet(ts, t)
    IN  [err |-> r.err, st |-> resetValue(tag, r.tags)]

StructTagSetNoReset(tag, ts, t) ==
    LET r == TagsSet(ts, t)
    IN  [err |-> r.err, st |-> [tags |-> r.tags, tag |-> tag]]

\* StructTag.Set: the error returned, and the tag set and tag literal afterwards
StructTagSet(tag, ts, t) ==
    LET r == TagsSet(ts, t)
    IN  IF ~r.err
        THEN [err |-> FALSE, st |-> resetValue(tag, r.tags)]
        ELSE [err |-> TRUE, st |-> [tags |-> r.tags, tag |-> tag]]

\* StructTag.Get
StructTagGet(ts, key) == TagsGet(ts, key)

\* StructTag.Keys
StructTagKeys(ts) == TagsKeys(ts)

\* StructTag.String
StructTagString(ts) == TagsString(ts)

-----------------------------------------------------------------------------
(* StructTag: inputs and actions                                           *)

KA == <<"a">>
KB == <<"b">>
TagKeys == {KA, KB}
TagNames == {<<"x">>, <<"y">>}
OptionLists == {<<<<"o">>>>, <<<<"p">>>>, <<<<"o">>, <<"p">>>>}
KeyLists == {<<KA>>, <<KB>>, <<KA, KB>>}

\* tags handed to Set: the empty key is the structurally invalid one
SetTags ==
    { [Key |-> k, Name |-> n, Options |-> o] :
        k \in TagKeys \cup {<<>>}, n \in TagNames, o \in {<<>>, <<<<"o">>>>} }

\* raw tag texts a field may carry when the StructTag is built
TextUnsorted == <<"b", ":", Q, "x", Q, " ", "a", ":", Q, "y", Q>>
TextOptions == <<"a", ":", Q, "x", ",", "o", Q>>
TextRepeated == <<"a", ":", Q, "x", Q, " ", " ", "a", ":", Q, "y", Q>>
TextUnbalanced == <<"a", ":", Q, "x">>
TextPartial == <<"b", ":", Q, "x", Q, " ", "a", ":", Q, "y">>
TextNoKey == <<":", Q, "x", Q>>
TextNoColon == <<"a", Q, "x", Q>>
TextNoQuote == <<"a", ":", "x">>

WellFormedTexts == {TextUnsorted, TextOptions, TextRepeated}
MalformedTexts == {TextUnbalanced, TextPartial, TextNoKey, TextNoColon, TextNoQuote}

FieldTags == {NilLit} \cup { Lit(t) : t \in WellFormedTexts \cup MalformedTexts }

NoPrev == [op |-> "none", keys |-> <<>>, err |-> FALSE]
\* the preceding call, kept when it was a Set or a Delete
Prev ==
    IF tagCall.op \in {"Set", "Delete"}
    THEN [op |-> tagCall.op, keys |-> tagCall.keys, err |-> tagCall.err]
    ELSE NoPrev

\* op: the call; keys: its key arguments; val: the value of the tag handed to
\* Set; pre: the number of tags before the call; err/found/ret: what it
\* returned; prev: the call before it
TagCall(op, keys, val, pre, err, found, ret, prev) ==
    [op |-> op, keys |-> keys, val |-> val, pre |-> pre, err |-> err,
     found |-> found, ret |-> ret, prev |-> prev]

Reparse ==
    /\ \E r \in {reparse(fieldTag)} :
         /\ tags' = r.tags
         /\ tagCall' = TagCall("reparse", <<>>, <<>>, Len(tags), r.err,
                               FALSE, <<>>, Prev)
    /\ UNCHANGED fieldTag
    /\ UNCHANGED <<typeVars, idxVars, listVars>>

AddOptions ==
    /\ \E key \in TagKeys, options \in OptionLists :
           \E r \in {StructTagAddOptions(fieldTag, tags, key, options)} :
               /\ tags' = r.tags
               /\ fieldTag' = r.tag
               /\ tagCall' = TagCall("AddOptions", <<key>>, <<>>, Len(tags), FALSE,
                                     FALSE, <<>>, Prev)
    /\ UNCHANGED <<typeVars, idxVars, listVars>>

Delete ==
    /\ \E keys \in KeyLists :
           \E r \in {StructTagDelete(fieldTag, tags, keys)} :
               /\ tags' = r.tags
               /\ fieldTag' = r.tag
               /\ tagCall' = TagCall("Delete", keys, <<>>, Len(tags), FALSE,
                                     FALSE, <<>>, Prev)
    /\ UNCHANGED <<typeVars, idxVars, listVars>>

DeleteOptions ==
    /\ \E key \in TagKeys, options \in OptionLists :
           \E r \in {StructTagDeleteOptions(fieldTag, tags, key, options)} :
               /\ tags' = r.tags
               /\ fieldTag' = r.tag
               /\ tagCall' = TagCall("DeleteOptions", <<key>>, <<>>, Len(tags), FALSE,
                                     FALSE, <<>>, Prev)
    /\ UNCHANGED <<typeVars, idxVars, listVars>>

Set ==
    /\ \E t \in SetTags :
           \E r \in {StructTagSet(fieldTag, tags, t)} :
               /\ tags' = r.st.tags
               /\ fieldTag' = r.st.tag
               /\ tagCall' = TagCall("Set", <<t.Key>>, TagValue(t), Len(tags), r.err,
                                     FALSE, <<>>, Prev)
    /\ UNCHANGED <<typeVars, idxVars, listVars>>

Get ==
    /\ \E key \in TagKeys :
         \E r \in {StructTagGet(tags, key)} :
             tagCall' = TagCall("Get", <<key>>, <<>>, Len(tags), ~r.found,
                                r.found, r.val, Prev)
    /\ UNCHANGED <<fieldTag, tags>>
    /\ UNCHANGED <<typeVars, idxVars, listVars>>

Keys ==
    /\ tagCall' = TagCall("Keys", <<>>, <<>>, Len(tags), FALSE, FALSE,
                          StructTagKeys(tags), Prev)
    /\ UNCHANGED <<fieldTag, tags>>
    /\ UNCHANGED <<typeVars, idxVars, listVars>>

String ==
    /\ tagCall' = TagCall("String", <<>>, <<>>, Len(tags), FALSE, FALSE,
                          StructTagString(tags), Prev)
    /\ UNCHANGED <<fieldTag, tags>>
    /\ UNCHANGED <<typeVars, idxVars, listVars>>

-----------------------------------------------------------------------------
(* Kinds, identifiers, objects and types handed over by the type checker   *)

\* Kind.In(set): the zero mask is the empty set
KindIn(k, set) == k \in set

Pkgs == {"p1", "p2", "dep"}

\* Program.InitialPackages(), in order; "dep" is loaded transitively only
InitialPackages == <<"p1", "p2">>

\* the orders in which Program.allPackages may be ranged over
PackageOrders ==
    { o \in [1..Cardinality(Pkgs) -> Pkgs] : \A i, j \in DOMAIN o : i # j => o[i] # o[j] }

\* identifiers (syntax nodes), the package whose files hold them, their names
Idents == {"a", "b", "c", "d"}
IdentPkg == ("a" :> "p1") @@ ("b" :> "p1") @@ ("c" :> "p2") @@ ("d" :> "dep")
IdentName == ("a" :> "A") @@ ("b" :> "B") @@ ("c" :> "A") @@ ("d" :> "A")

\* objects: a struct-typed variable and an interface type declaration
Objs == {"o1", "o2"}
Types == {"t1", "t2", "t3"}
\* the objects of the other kinds a fact table binds: an invalid object, a
\* label, a builtin, no object at all, an int variable, a function
ObjType == ("o1" :> "t1") @@ ("o2" :> "t2") @@ ("oInt" :> "tInt") @@ ("oFun" :> "tFunc")
DeclType == ("o1" :> "t1") @@ ("o2" :> "t3")
GetObjKind(obj) ==
    (("o1" :> "Var") @@ ("o2" :> "Typ") @@ ("oBad" :> "Bad") @@ ("oLbl" :> "Lbl")
     @@ ("oBui" :> "Bui") @@ ("oNil" :> "Nil") @@ ("oInt" :> "Var")
     @@ ("oFun" :> "Fun"))[obj]
GetTypKind(t) ==
    (("t1" :> "Struct") @@ ("t2" :> "Interface") @@ ("t3" :> "Interface")
     @@ ("tInt" :> "Basic") @@ ("tFunc" :> "Func"))[t]

\* facade accessors
FacadeName(fa) == IdentName[fa.ident]
FacadeObjKind(fa) == GetObjKind(fa.obj)
FacadeTypKind(fa) == GetTypKind(ObjType[fa.obj])
FacadeTyp(fa) == DeclType[fa.obj]

-----------------------------------------------------------------------------
(* PackageInfo and Program: the facade index                               *)

\* PackageInfo.Inspect with a visitor that returns false on its stop-th call
\* (never, when stop = 0): the facades visited
RECURSIVE InspectFrom(_, _, _, _)
InspectFrom(fs, k, stop, seen) ==
    IF k > Len(fs) THEN [seen |-> seen, stopped |-> FALSE]
    ELSE IF Len(seen) + 1 = stop THEN [seen |-> Append(seen, fs[k]), stopped |-> TRUE]
    ELSE InspectFrom(fs, k + 1, stop, Append(seen, fs[k]))

PackageInspect(fs, stop) == InspectFrom(fs, 1, stop, <<>>).seen

RECURSIVE ProgramInspectFrom(_, _, _, _, _)
ProgramInspectFrom(F, pkgs, i, stop, seen) ==
    IF i > Len(pkgs) THEN seen
    ELSE LET r == InspectFrom(F[pkgs[i]], 1, stop, seen)
         IN  IF r.stopped THEN r.seen
             ELSE ProgramInspectFrom(F, pkgs, i + 1, stop, r.seen)

ProgramInspectAll(F, stop) ==
    ProgramInspectFrom(F, <<"p1", "p2", "dep">>, 1, stop, <<>>)

\* Program.Inspect
ProgramInspect(F, stop) == ProgramInspectFrom(F, InitialPackages, 1, stop, <<>>)

LookupMatchNoZero(fa, objKindSet, typKindSet, name) ==
    /\ (name = "" \/ FacadeName(fa) = name)
    /\ KindIn(FacadeTypKind(fa), typKindSet)
    /\ (objKindSet = {} \/ KindIn(FacadeObjKind(fa), objKindSet))

\* the visitor of Lookup
LookupMatch(fa, objKindSet, typKindSet, name) ==
    /\ (name = "" \/ FacadeName(fa) = name)
    /\ (typKindSet = {} \/ KindIn(FacadeTypKind(fa), typKindSet))
    /\ (objKindSet = {} \/ KindIn(FacadeObjKind(fa), objKindSet))

RECURSIVE LookupVisit(_, _, _, _, _)
LookupVisit(visited, objKindSet, typKindSet, name, list) ==
    IF visited = <<>> THEN list
    ELSE LookupVisit(Tail(visited), objKindSet, typKindSet, name,
            IF LookupMatch(Head(visited), objKindSet, typKindSet, name)
            THEN Append(list, Head(visited)) ELSE list)

\* PackageInfo.Lookup
PackageLookup(fs, objKindSet, typKindSet, name) ==
    LookupVisit(PackageInspect(fs, 0), objKindSet, typKindSet, name, <<>>)

\* Program.Lookup
ProgramLookup(F, objKindSet, typKindSet, name) ==
    LookupVisit(ProgramInspect(F, 0), objKindSet, typKindSet, name, <<>>)

NoFacade == [ident |-> "", obj |-> "", pkg |-> ""]

\* PackageInfo.getFacade: the facade and its 0-based index, or -1
RECURSIVE getFacadeFrom(_, _, _)
getFacadeFrom(fs, ident, k) ==
    IF k > Len(fs) THEN [facade |-> NoFacade, idx |-> -1]
    ELSE IF fs[k].ident = ident THEN [facade |-> fs[k], idx |-> k - 1]
    ELSE getFacadeFrom(fs, ident, k + 1)

getFacade(fs, ident) == getFacadeFrom(fs, ident, 1)

\* PackageInfo.getFacadeByTyp
RECURSIVE getFacadeByTypFrom(_, _, _)
getFacadeByTypFrom(fs, t, k) ==
    IF k > Len(fs) THEN [facade |-> NoFacade, idx |-> -1]
    ELSE IF ObjType[fs[k].obj] = t \/ FacadeTyp(fs[k]) = t
         THEN [facade |-> fs[k], idx |-> k - 1]
    ELSE getFacadeByTypFrom(fs, t, k + 1)

getFacadeByTyp(fs, t) == getFacadeByTypFrom(fs, t, 1)

\* PackageInfo.FindFacade
PackageFindFacade(fs, t) ==
    [fa |-> getFacadeByTyp(fs, t).facade, found |-> getFacadeByTyp(fs, t).idx # -1]

RECURSIVE ProgramFindFacadeFrom(_, _, _, _)
ProgramFindFacadeFrom(F, order, i, t) ==
    IF i > Len(order) THEN [fa |-> NoFacade, found |-> FALSE]
    ELSE IF PackageFindFacade(F[order[i]], t).found THEN PackageFindFacade(F[order[i]], t)
    ELSE ProgramFindFacadeFrom(F, order, i + 1, t)

\* Program.FindFacade, ranging over allPackages in the given order
ProgramFindFacade(F, order, t) == ProgramFindFacadeFrom(F, order, 1, t)

\* PackageInfo.addFacade
addFacade(fs, p, ident, obj) == Append(fs, [ident |-> ident, obj |-> obj, pkg |-> p])

\* PackageInfo.removeFacade
removeFacade(fs, ident) ==
    LET idx == getFacade(fs, ident).idx
    IN  IF idx >= 0 THEN SubSeq(fs, 1, idx) \o SubSeq(fs, idx + 2, Len(fs)) ELSE fs

-----------------------------------------------------------------------------
(* The facade index: inputs and actions                                    *)

MaxFacades == 2   \* facades held by the whole program

ObjKindSets == {{}, {"Var"}, {"Typ", "Fun"}}
TypKindSets == {{}, {"Struct"}}
LookupNames == {"", "A"}
Stops == {0, 1}

NoQuery == [objKindSet |-> {}, typKindSet |-> {}, name |-> ""]

\* op: the call; pkg: the package it is made on ("" for the program); ident,
\* q, typ: its arguments; ret: the facades returned; idx: the index returned
IdxCall(op, pkg, ident, q, typ, ret, idx) ==
    [op |-> op, pkg |-> pkg, ident |-> ident, q |-> q, typ |-> typ,
     ret |-> ret, idx |-> idx]

NoIdxCall == IdxCall("none", "", "", NoQuery, "", <<>>, -1)

TotalFacades == Len(facades["p1"]) + Len(facades["p2"]) + Len(facades["dep"])

AddFacade ==
    /\ TotalFacades < MaxFacades
    /\ \E ident \in Idents, obj \in Objs :
         /\ facades' = [facades EXCEPT ![IdentPkg[ident]] =
                            addFacade(@, IdentPkg[ident], ident, obj)]
         /\ idxCall' = IdxCall("addFacade", IdentPkg[ident], ident, NoQuery, "", <<>>, -1)
    /\ UNCHANGED <<defs, checked, typeVars, tagVars, listVars>>

RemoveFacade ==
    /\ \E ident \in Idents :
         /\ facades' = [facades EXCEPT ![IdentPkg[ident]] = removeFacade(@, ident)]
         /\ idxCall' = IdxCall("removeFacade", IdentPkg[ident], ident, NoQuery, "", <<>>, -1)
    /\ UNCHANGED <<defs, checked, typeVars, tagVars, listVars>>

GetFacade ==
    /\ \E ident \in Idents :
         \E r \in {getFacade(facades[IdentPkg[ident]], ident)} :
             idxCall' = IdxCall("getFacade", IdentPkg[ident], ident, NoQuery, "",
                                IF r.idx = -1 THEN <<>> ELSE <<r.facade>>, r.idx)
    /\ UNCHANGED <<facades, defs, checked, typeVars, tagVars, listVars>>

CallPackageLookup ==
    /\ \E p \in Pkgs, o \in ObjKindSets, t \in TypKindSets, n \in LookupNames :
         idxCall' = IdxCall("PackageInfo.Lookup", p, "",
                            [objKindSet |-> o, typKindSet |-> t, name |-> n], "",
                            PackageLookup(facades[p], o, t, n), -1)
    /\ UNCHANGED <<facades, defs, checked, typeVars, tagVars, listVars>>

CallProgramLookup ==
    /\ \E o \in ObjKindSets, t \in TypKindSets, n \in LookupNames :
         idxCall' = IdxCall("Program.Lookup", "", "",
                            [objKindSet |-> o, typKindSet |-> t, name |-> n], "",
                            ProgramLookup(facades, o, t, n), -1)
    /\ UNCHANGED <<facades, defs, checked, typeVars, tagVars, listVars>>

CallProgramInspect ==
    /\ \E stop \in Stops :
         idxCall' = IdxCall("Program.Inspect", "", "", NoQuery, "",
                            ProgramInspect(facades, stop), stop)
    /\ UNCHANGED <<facades, defs, checked, typeVars, tagVars, listVars>>

CallPackageFindFacade ==
    /\ \E p \in Pkgs, t \in Types :
         \E r \in {PackageFindFacade(facades[p], t)} :
             idxCall' = IdxCall("PackageInfo.FindFacade", p, "", NoQuery, t,
                                IF r.found THEN <<r.fa>> ELSE <<>>, -1)
    /\ UNCHANGED <<facades, defs, checked, typeVars, tagVars, listVars>>

CallProgramFindFacade ==
    /\ \E order \in PackageOrders, t \in Types :
         \E r \in {ProgramFindFacade(facades, order, t)} :
             idxCall' = IdxCall("Program.FindFacade", "", "", NoQuery, t,
                                IF r.found THEN <<r.fa>> ELSE <<>>, -1)
    /\ UNCHANGED <<facades, defs, checked, typeVars, tagVars, listVars>>

-----------------------------------------------------------------------------
(* The classification pass                                                 *)

MaxDefs == 3   \* bindings in a package's identifier-to-object table

\* the bindings a fact table is drawn from: identifier and object
Bindings ==
    { [ident |-> "bad", obj |-> "oBad"],
      [ident |-> "L", obj |-> "oLbl"],
      [ident |-> "bui", obj |-> "oBui"],
      [ident |-> "p", obj |-> "oNil"],
      [ident |-> "v", obj |-> "oInt"],
      [ident |-> "x", obj |-> "oInt"],
      [ident |-> "f", obj |-> "oInt"],
      [ident |-> "s", obj |-> "o1"],
      [ident |-> "par", obj |-> "oInt"],
      [ident |-> "y", obj |-> "oInt"],
      [ident |-> "g", obj |-> "oFun"],
      [ident |-> "M", obj |-> "oFun"],
      [ident |-> "T", obj |-> "o2"] }

\* The syntax tree: each identifier's enclosing-node path as
\* astutil.PathEnclosingInterval returns it, the identifier first, then its
\* ancestors up to the file.
AstPath ==
    \* var bad, bui, v ...
    [id \in {"bad", "bui", "v"} |-> <<"Ident", "ValueSpec", "GenDecl", "File">>]
    \* L: for { }
    @@ ("L" :> <<"Ident", "LabeledStmt", "BlockStmt", "FuncDecl", "File">>)
    \* package p
    @@ ("p" :> <<"Ident", "File">>)
    \* func g() { x := 1 }
    @@ ("x" :> <<"Ident", "AssignStmt", "BlockStmt", "FuncDecl", "File">>)
    \* type S struct { f int; s T }
    @@ [id \in {"f", "s"} |->
           <<"Ident", "Field", "FieldList", "StructType", "TypeSpec", "GenDecl", "File">>]
    \* func g(par int)
    @@ ("par" :> <<"Ident", "Field", "FieldList", "FuncType", "FuncDecl", "File">>)
    \* type S struct { a [unsafe.Sizeof(func() { y := 1; _ = y })]int }
    @@ ("y" :> <<"Ident", "AssignStmt", "BlockStmt", "FuncLit", "CallExpr", "ArrayType",
                 "Field", "FieldList", "StructType", "TypeSpec", "GenDecl", "File">>)
    \* func g()
    @@ ("g" :> <<"Ident", "FuncDecl", "File">>)
    \* type I interface { M() }
    @@ ("M" :> <<"Ident", "Field", "FieldList", "InterfaceType", "TypeSpec", "GenDecl",
                 "File">>)
    \* type T ...
    @@ ("T" :> <<"Ident", "TypeSpec", "GenDecl", "File">>)

\* PackageInfo.files: a file the parser gave up on, then the file that
\* holds every identifier
Files ==
    << [hasPos |-> FALSE, idents |-> {}],
       [hasPos |-> TRUE, idents |-> DOMAIN AstPath] >>

tokenFileContainsPos(f, ident) == ident \in f.idents

PathEnclosingInterval(f, ident) == AstPath[ident]

\* PackageInfo.pathEnclosingInterval: the path in the first file that has a
\* position, holds the identifier and yields a path; <<>> (nil) when there
\* is none
pathEnclosingInterval(files, ident) ==
    LET hits == { k \in 1..Len(files) :
                    /\ files[k].hasPos
                    /\ tokenFileContainsPos(files[k], ident)
                    /\ PathEnclosingInterval(files[k], ident) # <<>> }
    IN  IF hits = {} THEN <<>>
        ELSE PathEnclosingInterval(files[CHOOSE k \in hits : \A j \in hits : k <= j], ident)

\* PackageInfo.check over the bindings in the order the map is ranged over
RECURSIVE checkFrom(_, _, _, _, _)
checkFrom(fs, p, files, order, k) ==
    IF k > Len(order) THEN fs
    ELSE LET ident == order[k].ident
             obj == order[k].obj
         IN  IF GetObjKind(obj) \in {"Bad", "Lbl", "Bui", "Nil"}
             THEN checkFrom(fs, p, files, order, k + 1)
             ELSE IF /\ GetObjKind(obj) = "Var"
                     /\ GetTypKind(ObjType[obj]) # "Struct"
                     /\ \E n \in 1..Len(pathEnclosingInterval(files, ident)) :
                            pathEnclosingInterval(files, ident)[n] = "Field"
             THEN checkFrom(fs, p, files, order, k + 1)
             ELSE checkFrom(addFacade(fs, p, ident, obj), p, files, order, k + 1)

check(fs, p, files, order) == checkFrom(fs, p, files, order, 1)

\* the orders in which a map of bindings may be ranged over
TraversalOrders(d) ==
    { o \in [1..Cardinality(d) -> d] : \A i, j \in DOMAIN o : i # j => o[i] # o[j] }

\* the call records, as ret, the order in which the bindings were ranged over
Check ==
    /\ ~checked
    /\ \E order \in TraversalOrders(defs) :
         /\ facades' = [facades EXCEPT !["p1"] = check(@, "p1", Files, order)]
         /\ idxCall' = IdxCall("check", "p1", "", NoQuery, "", order, -1)
    /\ checked' = TRUE
    /\ UNCHANGED <<defs, typeVars, tagVars, listVars>>

-----------------------------------------------------------------------------
(* ListType                                                                *)

MaxLen == 24   \* the longest array length declared

Digits == <<"0", "1", "2", "3", "4", "5", "6", "7", "8", "9">>
HexDigits == Digits \o <<"a", "b", "c", "d", "e", "f">>

IsDigit(c) == \E i \in 1..Len(Digits) : Digits[i] = c
DigitVal(c) == (CHOOSE i \in 1..Len(Digits) : Digits[i] = c) - 1

\* strconv.Itoa for n >= 0
RECURSIVE Itoa(_)
Itoa(n) ==
    IF n < Len(Digits) THEN <<Digits[n + 1]>>
    ELSE Append(Itoa(n \div Len(Digits)), Digits[(n % Len(Digits)) + 1])

\* strconv.Atoi: an optional sign, then decimal digits only
RECURSIVE AtoiDigits(_, _)
AtoiDigits(t, acc) ==
    IF t = <<>> THEN [n |-> acc, err |-> FALSE]
    ELSE IF ~IsDigit(Head(t)) THEN [n |-> 0, err |-> TRUE]
    ELSE AtoiDigits(Tail(t), acc * Len(Digits) + DigitVal(Head(t)))

Atoi(t) ==
    IF t = <<>> THEN [n |-> 0, err |-> TRUE]
    ELSE IF Head(t) \in {"+", "-"}
         THEN IF Tail(t) = <<>> THEN [n |-> 0, err |-> TRUE]
              ELSE LET r == AtoiDigits(Tail(t), 0)
                   IN  IF Head(t) = "-" /\ ~r.err THEN [n |-> -r.n, err |-> FALSE] ELSE r
    ELSE AtoiDigits(t, 0)

\* ast.ArrayType.Len: nil for a slice, else the length expression; n is the
\* array length it denotes
NilExpr == [form |-> "nil", Value |-> <<>>, n |-> -1]
DecimalLit(n) == [form |-> "BasicLit", Value |-> Itoa(n), n |-> n]
HexLit(n) == [form |-> "BasicLit", Value |-> <<"0", "x", HexDigits[n + 1]>>, n |-> n]
ConstIdent(n) == [form |-> "Ident", Value |-> <<"N">>, n |-> n]

LenExprs ==
    { DecimalLit(n) : n \in 0..MaxLen }
        \cup { HexLit(n) : n \in { k \in 0..MaxLen : k < Len(HexDigits) } }
        \cup { ConstIdent(n) : n \in 0..MaxLen }

\* File.newListType
newListType(typLen) ==
    [kind |-> IF typLen # NilExpr THEN "Array" ELSE "Slice", Len |-> typLen]

\* ListType.Len: the type assertion panics on anything but a basic literal
ListTypeLen(l) ==
    IF l.kind = "Slice" THEN [n |-> -1, ok |-> FALSE, panic |-> FALSE]
    ELSE IF l.Len.form # "BasicLit" THEN [n |-> 0, ok |-> FALSE, panic |-> TRUE]
    ELSE [n |-> Atoi(l.Len.Value).n, ok |-> TRUE, panic |-> FALSE]

NoLenCall == [op |-> "none", ret |-> [n |-> 0, ok |-> FALSE, panic |-> FALSE]]

NewListType ==
    /\ \E e \in LenExprs \cup {NilExpr} : listType' = newListType(e)
    /\ lenCall' = NoLenCall
    /\ UNCHANGED <<typeVars, tagVars, idxVars>>

CallLen ==
    /\ lenCall' = [op |-> "Len", ret |-> ListTypeLen(listType)]
    /\ UNCHANGED <<listType, typeVars, tagVars, idxVars>>

-----------------------------------------------------------------------------
(* Specifications: one per component, the other components idle            *)

NoTagCall == TagCall("none", <<>>, <<>>, 0, FALSE, FALSE, <<>>, NoPrev)
NoFacades == [p \in Pkgs |-> <<>>]

\* the type node's method set, under renaming
MethodsInit ==
    /\ typeName \in TypeNames
    /\ methods = <<>>
    /\ okCalls = 0
    /\ typeCall = NoCall
    /\ fieldTag = NilLit /\ tags = <<>> /\ tagCall = NoTagCall
    /\ facades = NoFacades /\ idxCall = NoIdxCall /\ defs = {} /\ checked = FALSE
    /\ listType = newListType(NilExpr) /\ lenCall = NoLenCall

MethodsNext == AddMethod \/ SetName

SpecMethods == MethodsInit /\ [][MethodsNext]_vars

\* the type node's method set and the conformance check
ImplInit ==
    /\ typeName \in TypeNames
    /\ methods = <<>>
    /\ okCalls = 0
    /\ typeCall = NoCall
    /\ fieldTag = NilLit /\ tags = <<>> /\ tagCall = NoTagCall
    /\ facades = NoFacades /\ idxCall = NoIdxCall /\ defs = {} /\ checked = FALSE
    /\ listType = newListType(NilExpr) /\ lenCall = NoLenCall

ImplNext == AddMethod \/ CallImplements

SpecImpl == ImplInit /\ [][ImplNext]_vars

\* a struct field's tag editor, built over each raw tag text
TagInit ==
    /\ fieldTag \in FieldTags
    /\ tags = newStructTag(fieldTag).tags
    /\ tagCall = TagCall("newStructTag", <<>>, <<>>, 0, newStructTag(fieldTag).err,
                         FALSE, <<>>, NoPrev)
    /\ typeName = "T" /\ methods = <<>> /\ okCalls = 0 /\ typeCall = NoCall
    /\ facades = NoFacades /\ idxCall = NoIdxCall /\ defs = {} /\ checked = FALSE
    /\ listType = newListType(NilExpr) /\ lenCall = NoLenCall

TagNext ==
    \/ Reparse \/ AddOptions \/ Delete \/ DeleteOptions
    \/ Set \/ Get \/ Keys \/ String

SpecTag == TagInit /\ [][TagNext]_vars

\* the facade index of a program of three packages
IndexInit ==
    /\ facades = NoFacades
    /\ idxCall = NoIdxCall
    /\ defs = {}
    /\ checked = FALSE
    /\ typeName = "T" /\ methods = <<>> /\ okCalls = 0 /\ typeCall = NoCall
    /\ fieldTag = NilLit /\ tags = <<>> /\ tagCall = NoTagCall
    /\ listType = newListType(NilExpr) /\ lenCall = NoLenCall

IndexNext ==
    \/ AddFacade \/ RemoveFacade \/ GetFacade
    \/ CallPackageLookup \/ CallProgramLookup \/ CallProgramInspect
    \/ CallPackageFindFacade \/ CallProgramFindFacade

SpecIndex == IndexInit /\ [][IndexNext]_vars

\* list types
ListInit ==
    /\ listType = newListType(NilExpr)
    /\ lenCall = NoLenCall
    /\ typeName = "T" /\ methods = <<>> /\ okCalls = 0 /\ typeCall = NoCall
    /\ fieldTag = NilLit /\ tags = <<>> /\ tagCall = NoTagCall
    /\ facades = NoFacades /\ idxCall = NoIdxCall /\ defs = {} /\ checked = FALSE

ListNext == NewListType \/ CallLen

SpecList == ListInit /\ [][ListNext]_vars

\* the classification pass over each fact table, run once on a new package
CheckInit ==
    /\ defs \in { d \in SUBSET Bindings : Cardinality(d) <= MaxDefs }
    /\ checked = FALSE
    /\ facades = NoFacades
    /\ idxCall = NoIdxCall
    /\ typeName = "T" /\ methods = <<>> /\ okCalls = 0 /\ typeCall = NoCall
    /\ fieldTag = NilLit /\ tags = <<>> /\ tagCall = NoTagCall
    /\ listType = newListType(NilExpr) /\ lenCall = NoLenCall

CheckNext == Check

SpecCheck == CheckInit /\ [][CheckNext]_vars

-----------------------------------------------------------------------------
(* Type node: properties                                                   *)

\* Index of the first method called name in ms, 0 when there is none.
FirstIndexByName(ms, name) ==
    IF \E k \in 1..Len(ms) : ms[k].name = name
    THEN CHOOSE k \in 1..Len(ms) :
            /\ ms[k].name = name
            /\ \A i \in 1..(k - 1) : ms[i].name # name
    ELSE 0

\* Every method of u has a same-named first match on ms with the same shape.
Covers(ms, u) ==
    \A k \in 1..Len(u) :
        LET j == FirstIndexByName(ms, u[k].name)
        IN  /\ j # 0
            /\ ms[j].variadic = u[k].variadic
            /\ Len(ms[j].params) = Len(u[k].params)
            /\ Len(ms[j].results) = Len(u[k].results)
            /\ \A i \in 1..Len(u[k].params) : ms[j].params[i] = u[k].params[i]
            /\ \A i \in 1..Len(u[k].results) : ms[j].results[i] = u[k].results[i]

\* C1: Implements(T, U) returns a boolean for every T and U, and it is true
\* exactly when every method of U has a first same-named match on T with equal
\* variadic-ness, parameter count, result count and positional type-names.
C1_ImplementsDecidesCoverage ==
    typeCall.op = "Implements" =>
        typeCall.ret = (IF Covers(methods, typeCall.u) THEN "true" ELSE "false")

-----------------------------------------------------------------------------
(* StructTag: properties                                                   *)

Mutations == {"AddOptions", "Delete", "DeleteOptions", "Set"}

SortedByKey(ts) ==
    \A i, j \in 1..Len(ts) : i < j => ~StrLess(ts[j].Key, ts[i].Key)

\* C3: right after a successful AddOptions, Delete, DeleteOptions or Set the
\* tag set is in key order, the field's raw tag text is the serialization of
\* the whole tag set (and parses back to the same keys), and the tag literal is
\* nil exactly when that serialization is empty.
C3_MutationReserializesSorted ==
    (tagCall.op \in Mutations /\ ~tagCall.err) =>
        /\ SortedByKey(tags)
        /\ fieldTag.nil <=> (TagsString(tags) = <<>>)
        /\ ~fieldTag.nil =>
              /\ fieldTag.Value = TagsString(tags)
              /\ ~Parse(fieldTag.Value).err
              /\ TagsKeys(Parse(fieldTag.Value).tags) = TagsKeys(tags)

\* AddOptions("a", "o") on the tag text  b:"x" a:"y"  leaves  a:"y,o" b:"x"
C3_Witness ==
    /\ tagCall.op = "AddOptions"
    /\ ~fieldTag.nil
    /\ fieldTag.Value =
          <<"a", ":", Q, "y", ",", "o", Q, " ", "b", ":", Q, "x", Q>>

\* C4: a Get(k) that follows a successful Set of a tag with key k and value v
\* finds the tag with value v; a Get(k) that follows Delete(..k..) reports
\* not-found; a successful Set with key b on an empty tag set followed by a
\* successful Set with key a leaves the raw text  a:"va" b:"vb".
C4_TagRoundTrip ==
    /\ [][(/\ tagCall.op = "Set" /\ ~tagCall.err
           /\ tagCall'.op = "Get" /\ tagCall'.keys = tagCall.keys)
            => (tagCall'.found /\ tagCall'.ret = tagCall.val)]_vars
    /\ [][(/\ tagCall.op = "Delete"
           /\ tagCall'.op = "Get" /\ InSeq(tagCall'.keys[1], tagCall.keys))
            => (~tagCall'.found /\ tagCall'.err)]_vars
    /\ [][(/\ tagCall.op = "Set" /\ ~tagCall.err /\ tagCall.pre = 0
           /\ tagCall.keys = <<KB>>
           /\ tagCall'.op = "Set" /\ ~tagCall'.err /\ tagCall'.keys = <<KA>>)
            => fieldTag' = Lit(<<"a", ":", Q>> \o tagCall'.val \o <<Q, " ">>
                               \o <<"b", ":", Q>> \o tagCall.val \o <<Q>>)]_vars

\* Get("a") right after a successful Set that overwrote key a in a set of two
C4_Witness ==
    /\ tagCall.op = "Get" /\ tagCall.found
    /\ tagCall.keys = <<KA>>
    /\ tagCall.prev.op = "Set" /\ ~tagCall.prev.err /\ tagCall.prev.keys = <<KA>>
    /\ tagCall.ret = <<"y", ",", "o">>
    /\ Len(tags) = 2

\* C5: a Set that returns an error leaves the tag set and the field's tag
\* literal exactly as they were.
C5_FailedSetChangesNothing ==
    [][(tagCall'.op = "Set" /\ tagCall'.err)
        => (tags' = tags /\ fieldTag' = fieldTag)]_vars

\* a rejected Set on a field whose raw text is still in source (unsorted) order
C5_Witness ==
    /\ tagCall.op = "Set" /\ tagCall.err
    /\ ~fieldTag.nil /\ fieldTag.Value = TextUnsorted
    /\ TagsKeys(tags) = <<KB, KA>>

\* C6: over malformed raw tag text the tag set has no keys, newStructTag drops
\* the parse error and reparse returns it, and Keys, String and Get work on the
\* empty set; a field with no tag literal parses as the empty text, without
\* error; reparse returns no error for well-formed text.
C6_ParseTolerance ==
    /\ (~fieldTag.nil /\ fieldTag.Value \in MalformedTexts) =>
          /\ Len(tags) = 0
          /\ tagCall.op = "reparse" => tagCall.err
          /\ tagCall.op = "newStructTag" => ~tagCall.err
          /\ tagCall.op \in {"Keys", "String"} => (tagCall.ret = <<>> /\ ~tagCall.err)
          /\ tagCall.op = "Get" => ~tagCall.found
    /\ (fieldTag.nil /\ tagCall.op \in {"newStructTag", "reparse"}) =>
          (tags = <<>> /\ ~tagCall.err)
    /\ (~fieldTag.nil /\ fieldTag.Value \in WellFormedTexts /\ tagCall.op = "reparse") =>
          (~tagCall.err /\ Len(tags) > 0)

\* reparse over  b:"x" a:"y  (one good pair, then an unbalanced quote)
C6_Witness ==
    /\ tagCall.op = "reparse" /\ tagCall.err
    /\ ~fieldTag.nil /\ fieldTag.Value = TextPartial
    /\ Len(tags) = 0

-----------------------------------------------------------------------------
(* The facade index: properties                                            *)

\* the facades in the scope of a call made on package pkg, or on the program
\* when pkg = "", in facade-list order
ScopeList(F, pkg) == IF pkg = "" THEN F["p1"] \o F["p2"] ELSE F[pkg]

Passes(fa, q) ==
    /\ q.name = "" \/ IdentName[fa.ident] = q.name
    /\ q.typKindSet = {} \/ GetTypKind(ObjType[fa.obj]) \in q.typKindSet
    /\ q.objKindSet = {} \/ GetObjKind(fa.obj) \in q.objKindSet

\* C7: Lookup, on a package and on the program, returns exactly the facades in
\* scope that pass the name, type-kind and decl-kind filters, in facade-list
\* order; with zero masks and the empty name it returns every facade in scope.
C7_LookupReturnsExactlyMatches ==
    idxCall.op \in {"PackageInfo.Lookup", "Program.Lookup"} =>
        /\ idxCall.ret =
              SelectSeq(ScopeList(facades, idxCall.pkg), LAMBDA fa : Passes(fa, idxCall.q))
        /\ idxCall.q = NoQuery => idxCall.ret = ScopeList(facades, idxCall.pkg)

\* Program.Lookup({Var}, 0, "A") picks one of two facades of the initial packages
C7_Witness ==
    /\ idxCall.op = "Program.Lookup"
    /\ idxCall.q = [objKindSet |-> {"Var"}, typKindSet |-> {}, name |-> "A"]
    /\ Len(idxCall.ret) = 1
    /\ Len(facades["p1"]) = 1 /\ Len(facades["p2"]) = 1

HasFacadeOfType(F, t) ==
    \E p \in Pkgs : \E i \in 1..Len(F[p]) :
        ObjType[F[p][i].obj] = t \/ DeclType[F[p][i].obj] = t

\* C8: Program.Inspect and Program.Lookup hand out facades of the initial
\* packages only; Program.FindFacade(t) reports found exactly when some loaded
\* package, initial or transitive, has a facade whose binding type or declared
\* type is t.
C8_ProgramScopeAsymmetry ==
    /\ idxCall.op \in {"Program.Inspect", "Program.Lookup"} =>
          \A i \in 1..Len(idxCall.ret) :
              /\ idxCall.ret[i].pkg \in {"p1", "p2"}
              /\ \E k \in 1..Len(facades[idxCall.ret[i].pkg]) :
                    facades[idxCall.ret[i].pkg][k] = idxCall.ret[i]
    /\ idxCall.op = "Program.FindFacade" =>
          ((idxCall.ret # <<>>) <=> HasFacadeOfType(facades, idxCall.typ))

\* Program.FindFacade finds a facade that only the transitive package holds,
\* by its declared type
C8_Witness ==
    /\ idxCall.op = "Program.FindFacade"
    /\ idxCall.typ = "t3"
    /\ idxCall.ret # <<>>
    /\ idxCall.ret[1].pkg = "dep"
    /\ facades["p1"] # <<>>
    /\ ~HasFacadeOfType([facades EXCEPT !["dep"] = <<>>], "t3")

OtherIdents(fs, ident) == SelectSeq(fs, LAMBDA fa : fa.ident # ident)

\* C9: after removeFacade(ident) a lookup of ident reports index -1; removal
\* keeps every facade with another identifier, in order; addFacade(ident)
\* appends one facade and ident is found again.
C9_RemoveThenLookupNotFound ==
    /\ [](idxCall.op = "removeFacade" =>
            getFacade(facades[idxCall.pkg], idxCall.ident).idx = -1)
    /\ [][idxCall'.op = "removeFacade" =>
            OtherIdents(facades'[idxCall'.pkg], idxCall'.ident)
                = OtherIdents(facades[idxCall'.pkg], idxCall'.ident)]_vars
    /\ [][idxCall'.op = "addFacade" =>
            /\ Len(facades'[idxCall'.pkg]) = Len(facades[idxCall'.pkg]) + 1
            /\ getFacade(facades'[idxCall'.pkg], idxCall'.ident).idx # -1]_vars

-----------------------------------------------------------------------------
(* ListType: properties                                                    *)

\* C10: the kind is Array exactly when a length expression is present; Len()
\* returns (n, true) for an array declared with length n, whatever the form of
\* the length expression, and (-1, false) for a slice.
C10_LenReportsDeclaredLength ==
    /\ (listType.kind = "Array") <=> (listType.Len # NilExpr)
    /\ lenCall.op = "Len" =>
          lenCall.ret = IF listType.Len # NilExpr
                        THEN [n |-> listType.Len.n, ok |-> TRUE, panic |-> FALSE]
                        ELSE [n |-> -1, ok |-> FALSE, panic |-> FALSE]

-----------------------------------------------------------------------------
(* The classification pass: properties                                     *)

\* The node that immediately encloses an identifier: its parent in the tree.
ImmediateEnclosing(ident) ==
    IF Len(AstPath[ident]) >= 2 THEN AstPath[ident][2] ELSE "none"

\* The bindings the statement says the pass drops.
DroppedByRule(b) ==
    \/ GetObjKind(b.obj) \in {"Bad", "Lbl", "Bui", "Nil"}
    \/ /\ GetObjKind(b.obj) = "Var"
       /\ GetTypKind(ObjType[b.obj]) # "Struct"
       /\ ImmediateEnclosing(b.ident) = "Field"

\* The facades of fs made from binding b.
FacadesOf(fs, b) == { k \in 1..Len(fs) : fs[k].ident = b.ident /\ fs[k].obj = b.obj }

\* C11: after the classification pass over a package's identifier-to-object
\* table, the facade list holds exactly one facade per binding that survives:
\* none for a binding whose object is Bad, Label, Builtin or Nil, none for a
\* non-struct Variable whose immediate enclosing node is a field declaration,
\* and one for every other binding, a struct-typed Variable and a non-struct
\* Variable not immediately enclosed by a field declaration included.
C11_CheckKeepsExactlySurvivors ==
    checked =>
        /\ \A b \in defs :
              Cardinality(FacadesOf(facades["p1"], b)) = IF DroppedByRule(b) THEN 0 ELSE 1
        /\ Len(facades["p1"]) = Cardinality({ b \in defs : ~DroppedByRule(b) })

====
